---- MODULE Spec2Model ----
(***************************************************************************)
(* Model of the attack/defense propagation engine of                       *)
(* cyber-network-simulation: budget allocation (network_generation.py)     *)
(* followed by one degree/degree trial (strategy_simulation.py).           *)
(*                                                                         *)
(* Nodes are numbered 1..n in graph.nodes order (Node.name + 1).           *)
(* centrality_value holds the degree of the node, i.e. networkx'           *)
(* degree_centrality times the positive constant n-1; it is only ever used *)
(* as a sort key.  The trial's local attack_budget (the ledger) is counted *)
(* in HALF units, so that the 0.5 cost of an indirect attack is 1.         *)
(***************************************************************************)
EXTENDS Integers, Sequences, FiniteSets, TLC

\* ---- bounds of the model ------------------------------------------------
MaxNodes == 4
MaxEdges == 3
MaxDefense == 4
MaxTwenties == 2
MaxUnits == 2
MaxCalcBudget == 120
NumGraphs == 2
StreamLen == 2

VARIABLES
    nodes,               \* graph.nodes, the set 1..n
    edges,               \* graph.edges, a set of two-element sets
    centrality_value,    \* Node.centrality_value
    defense_value,       \* Node.defense_value
    attack_value,        \* Node.attack_value
    is_attacked,         \* Node.is_attacked
    is_compromised,      \* Node.is_compromised
    node_attr,           \* networkx' per-node attribute dictionaries
    budget_mapping,      \* <<defense_budget, attack_budget>> given to the pipeline
    attack_budget,       \* deg_deg_trial's local attack_budget, in half units
    direct_attack_budget,\* last value returned by calc_direct_attack_budget
    targets,             \* deg_deg_trial's list of nodes to spread from
    current_node,        \* node popped by the while loop (0: none)
    next_targets,        \* rest of the for loop's sorted neighbour list
    frac_compromised,    \* <<num_compromised, number_of_nodes>> once returned
    pc,                  \* position in the pipeline
    resolved,            \* per node: the probability rows (percent) it was drawn against
    popped,              \* the nodes popped from targets so far, in order
    experiment           \* generate_data's state (NoExperiment outside it)

vars == <<nodes, edges, centrality_value, defense_value, attack_value,
          is_attacked, is_compromised, node_attr, budget_mapping,
          attack_budget, direct_attack_budget, targets, current_node,
          next_targets, frac_compromised, pc, resolved, popped, experiment>>

\* ---- sequences ------------------------------------------------------------
Range(s) == {s[i] : i \in 1..Len(s)}

Min(a, b) == IF a < b THEN a ELSE b

\* Python's range(k): empty when k <= 0
PyRange(k) == 0..(k - 1)

\* the elements of a set of integers as an ascending sequence
RECURSIVE Ascending(_)
Ascending(S) ==
    IF S = {} THEN <<>>
    ELSE LET m == CHOOSE x \in S : \A y \in S : x <= y
         IN  <<m>> \o Ascending(S \ {m})

\* sorted(seq, key=lambda node: node.centrality_value, reverse=True):
\* Python's sort is stable, also with reverse=True
RECURSIVE InsertDesc(_, _, _)
InsertDesc(sorted, x, key) ==
    IF sorted = <<>> THEN <<x>>
    ELSE IF key[Head(sorted)] >= key[x]
         THEN <<Head(sorted)>> \o InsertDesc(Tail(sorted), x, key)
         ELSE <<x>> \o sorted

RECURSIVE sorted_reverse(_, _)
sorted_reverse(seq, key) ==
    IF seq = <<>> THEN <<>>
    ELSE InsertDesc(sorted_reverse(SubSeq(seq, 1, Len(seq) - 1), key),
                    seq[Len(seq)], key)

\* ---- graphs ---------------------------------------------------------------
AllPairs(n) == {{u, v} : u, v \in 1..n} \ {{u} : u \in 1..n}

RECURSIVE Reach(_, _)
Reach(S, E) ==
    LET T == S \cup {v \in UNION E : \E u \in S : {u, v} \in E}
    IN  IF T = S THEN S ELSE Reach(T, E)

\* nx.is_connected, the test generate_graph retries on
is_connected(n, E) == Reach({1}, E) = 1..n

degree(v, E) == Cardinality({e \in E : v \in e})

\* graph.neighbors(v): adjacency in insertion order, which for a graph built by
\* erdos_renyi_graph and relabel_nodes is ascending node order
neighbors(v) == Ascending({u \in nodes : {u, v} \in edges})

\* ---- IEEE-754 double arithmetic of 0.05 * attack_budget -------------------
\* Numbers are little-endian bit sequences (TLC's integers are too narrow).
\* float.hex(0.05) = 0x1.999999999999ap-5: the 53-bit significand
\* 0x1999999999999A scaled by 2^-57.
HexDigits05 == <<10, 9, 9, 9, 9, 9, 9, 9, 9, 9, 9, 9, 9, 1>>

HexBits(d) == <<d % 2, (d \div 2) % 2, (d \div 4) % 2, (d \div 8) % 2>>

RECURSIVE HexToBits(_)
HexToBits(h) ==
    IF h = <<>> THEN <<>> ELSE HexBits(Head(h)) \o HexToBits(Tail(h))

\* drop the high-order zero bits
RECURSIVE Trim(_)
Trim(bits) ==
    IF bits = <<>> THEN <<>>
    ELSE IF bits[Len(bits)] = 0 THEN Trim(SubSeq(bits, 1, Len(bits) - 1))
         ELSE bits

RECURSIVE MulBits(_, _, _)
MulBits(bits, k, carry) ==
    IF bits = <<>>
    THEN IF carry = 0 THEN <<>>
         ELSE <<carry % 2>> \o MulBits(<<>>, k, carry \div 2)
    ELSE LET t == Head(bits) * k + carry
         IN  <<t % 2>> \o MulBits(Tail(bits), k, t \div 2)

RECURSIVE IncBits(_)
IncBits(bits) ==
    IF bits = <<>> THEN <<1>>
    ELSE IF Head(bits) = 0 THEN <<1>> \o Tail(bits)
         ELSE <<0>> \o IncBits(Tail(bits))

RECURSIVE BitsToInt(_)
BitsToInt(bits) ==
    IF bits = <<>> THEN 0 ELSE Head(bits) + 2 * BitsToInt(Tail(bits))

\* significand width and scale of the double 0.05
SignificandBits == 53
Scale05 == 57

\* round an exact product to a double, ties to even: [m |-> significand, s |-> bits dropped]
RoundToDouble(exact) ==
    LET L == Len(exact)
        s == L - SignificandBits
    IN  IF s <= 0 THEN [m |-> exact, s |-> 0]
        ELSE LET kept   == SubSeq(exact, s + 1, L)
                 guard  == exact[s]
                 sticky == \E i \in 1..(s - 1) : exact[i] = 1
                 up     == guard = 1 /\ (sticky \/ kept[1] = 1)
             IN  [m |-> IF up THEN IncBits(kept) ELSE kept, s |-> s]

\* math.ceil of the double m * 2^(s - Scale05)
CeilDouble(d) ==
    LET f    == Scale05 - d.s
        m    == d.m
        frac == \E i \in 1..Min(f, Len(m)) : m[i] = 1
        int  == IF Len(m) > f THEN BitsToInt(SubSeq(m, f + 1, Len(m))) ELSE 0
    IN  IF frac THEN int + 1 ELSE int

FloorDouble(d) ==
    LET f == Scale05 - d.s
        m == d.m
    IN  IF Len(m) > f THEN BitsToInt(SubSeq(m, f + 1, Len(m))) ELSE 0

\* 0.05 * b for an integer b >= 0, as a double
Mul05(b) ==
    RoundToDouble(Trim(MulBits(Trim(HexToBits(HexDigits05)), b, 0)))

\* ---- network_generation.py --------------------------------------------------
\* sort_by_centrality(graph)
sort_by_centrality(V, key) == sorted_reverse(Ascending(V), key)

calc_direct_attack_budget_floor(b) == FloorDouble(Mul05(b))

\* variant: int(0.05 * attack_budget) + 1
calc_direct_attack_budget_plus_one(b) == FloorDouble(Mul05(b)) + 1

\* calc_direct_attack_budget(attack_budget) = math.ceil(0.05 * attack_budget);
\* the product of a negative budget is the negated product of its absolute
\* value, and math.ceil(-x) = -math.floor(x)
calc_direct_attack_budget(b) ==
    IF b < 0 THEN 0 - FloorDouble(Mul05(0 - b)) ELSE CeilDouble(Mul05(b))

\* variant: range(defense_budget - 1)
assign_defense_values_short(sorted_nodes, defense_budget, dv) ==
    LET budget == IF Len(sorted_nodes) < defense_budget
                  THEN Len(sorted_nodes) ELSE defense_budget
    IN  [v \in DOMAIN dv |->
            IF \E i \in PyRange(budget - 1) : sorted_nodes[i + 1] = v
            THEN 1 ELSE dv[v]]

\* assign_defense_values(sorted_nodes, defense_budget): the new defense_value
assign_defense_values(sorted_nodes, defense_budget, dv) ==
    LET budget == IF Len(sorted_nodes) < defense_budget
                  THEN Len(sorted_nodes) ELSE defense_budget
    IN  [v \in DOMAIN dv |->
            IF \E i \in PyRange(budget) : sorted_nodes[i + 1] = v
            THEN 1 ELSE dv[v]]

\* variant: the direct attack budget computed from the budget left after the
\* direct attack, calc_direct_attack_budget(b - calc_direct_attack_budget(b))
assign_attack_values_diverged(sorted_nodes, b) ==
    LET k == calc_direct_attack_budget(b - calc_direct_attack_budget(b))
    IN  [marked |-> {sorted_nodes[i + 1] : i \in PyRange(Min(k, Len(sorted_nodes)))},
         raised |-> k > Len(sorted_nodes)]

\* assign_attack_values(sorted_nodes, attack_budget): the nodes the loop marks;
\* sorted_nodes[i] raises IndexError once i reaches len(sorted_nodes)
assign_attack_values(sorted_nodes, b) ==
    LET k == calc_direct_attack_budget(b)
    IN  [marked |-> {sorted_nodes[i + 1] : i \in PyRange(Min(k, Len(sorted_nodes)))},
         raised |-> k > Len(sorted_nodes)]

\* ---- strategy_simulation.py -------------------------------------------------
\* nx.get_node_attributes(graph, name): the nodes whose attribute dictionary
\* has the key, with its value
get_node_attributes(attr, name) ==
    [v \in {u \in DOMAIN attr : name \in DOMAIN attr[u]} |-> attr[v][name]]

\* variant: attack_budget >= 0
check_trial_conditions_ge(attr, ab) ==
    LET values == get_node_attributes(attr, "is_compromised")
        network_not_compromised == \A v \in DOMAIN values : values[v]
        has_attack_budget == ab >= 0
    IN  has_attack_budget /\ network_not_compromised

\* variant: attack_budget > 0.5
check_trial_conditions_above_half(attr, ab) ==
    LET values == get_node_attributes(attr, "is_compromised")
        network_not_compromised == \A v \in DOMAIN values : values[v]
        has_attack_budget == ab > 1
    IN  has_attack_budget /\ network_not_compromised

\* check_trial_conditions(graph, attack_budget)
check_trial_conditions(attr, ab) ==
    LET values == get_node_attributes(attr, "is_compromised")
        network_not_compromised == \A v \in DOMAIN values : values[v]
        has_attack_budget == ab > 0
    IN  has_attack_budget /\ network_not_compromised

\* the probability (percent) a direct attack is drawn against
direct_attack_probability(target_defense) ==
    IF target_defense = 1 THEN 70 ELSE 90

\* variant: current_node and target exchanged
indirect_attack_probability_swapped(target_defense, current_defense) ==
    IF current_defense = 1 /\ target_defense = 0 THEN 50
    ELSE IF current_defense = 0 /\ target_defense = 1 THEN 75
    ELSE IF current_defense = 1 /\ target_defense = 1 THEN 25
    ELSE IF current_defense = 0 /\ target_defense = 0 THEN 90
    ELSE 0

\* the probability (percent) an indirect attack is drawn against; 0: no branch
\* of the if/elif chain applies and is_compromised is left as it is
indirect_attack_probability(target_defense, current_defense) ==
    IF target_defense = 1 /\ current_defense = 0 THEN 50
    ELSE IF target_defense = 0 /\ current_defense = 1 THEN 75
    ELSE IF target_defense = 1 /\ current_defense = 1 THEN 25
    ELSE IF target_defense = 0 /\ current_defense = 0 THEN 90
    ELSE 0

\* targets.pop(): the last element of the list, and the list without it
list_pop(list) ==
    [node |-> list[Len(list)], rest |-> SubSeq(list, 1, Len(list) - 1)]

\* ---- initial states -----------------------------------------------------------
\* a connected graph of generate_graph with its degree centralities assigned,
\* every Node as constructed, and one (defense budget, attack budget) pair
Graphs(n) ==
    {E \in SUBSET AllPairs(n) : Cardinality(E) <= MaxEdges /\ is_connected(n, E)}

\* attack budgets 0..MaxUnits (at most one direct attack, a ledger that runs out)
\* and 21, 41, ... (several direct attacks)
AttackBudgets == (0..MaxUnits) \cup {20 * q + 1 : q \in 1..MaxTwenties}

InitGraph(n, E) ==
    /\ nodes = 1..n
    /\ edges = E
    /\ centrality_value = [v \in 1..n |-> degree(v, E)]
    /\ defense_value = [v \in 1..n |-> 0]
    /\ attack_value = [v \in 1..n |-> 0]
    /\ is_attacked = [v \in 1..n |-> FALSE]
    /\ is_compromised = [v \in 1..n |-> FALSE]
    /\ node_attr = [v \in 1..n |-> <<>>]
    /\ resolved = [v \in 1..n |-> <<>>]

\* what random.random() can return, in percent: between the probability rows
\* 50 and 70, or above every row
DrawValues == {60, 95}

\* no generate_data call is in progress
NoExperiment == <<>>

InitLocals ==
    /\ attack_budget = 0
    /\ direct_attack_budget = 0
    /\ targets = <<>>
    /\ current_node = 0
    /\ next_targets = <<>>
    /\ frac_compromised = <<>>
    /\ popped = <<>>

Init ==
    /\ \E n \in 1..MaxNodes : \E E \in Graphs(n) : InitGraph(n, E)
    /\ budget_mapping \in (0..MaxDefense) \X AttackBudgets
    /\ InitLocals
    /\ experiment = NoExperiment
    /\ pc = "generate_initial_networks"

\* ---- the conditions and lists of deg_deg_trial's loops ------------------------------
\* variant: spread from every attacked node
spreads_if_attacked(node) == is_attacked[node]

\* if current_node.is_compromised
spreads(node) == is_compromised[node]

\* variant: the neighbours as the graph lists them
next_targets_unsorted(node) == neighbors(node)

\* next_targets = sorted(list(graph.neighbors(current_node)), ..., reverse=True)
next_targets_of(node) == sorted_reverse(neighbors(node), centrality_value)

\* variant: no test of target.is_attacked
for_condition_any_target(target) ==
    check_trial_conditions(node_attr, attack_budget)

\* if check_trial_conditions(graph, attack_budget) and not target.is_attacked
for_condition(target) ==
    check_trial_conditions(node_attr, attack_budget) /\ ~is_attacked[target]

\* ---- actions --------------------------------------------------------------------
\* generate_initial_networks for the graph: sort, assign defense, assign attack
generate_initial_networks ==
    /\ pc = "generate_initial_networks"
    /\ LET sorted_nodes == sort_by_centrality(nodes, centrality_value)
           attack == assign_attack_values(sorted_nodes, budget_mapping[2])
       IN  /\ defense_value' =
                  assign_defense_values(sorted_nodes, budget_mapping[1], defense_value)
           /\ direct_attack_budget' = calc_direct_attack_budget(budget_mapping[2])
           /\ attack_value' = [v \in nodes |->
                  IF v \in attack.marked THEN 1 ELSE attack_value[v]]
           /\ is_attacked' = [v \in nodes |->
                  IF v \in attack.marked THEN TRUE ELSE is_attacked[v]]
           /\ pc' = IF attack.raised THEN "IndexError" ELSE "deg_deg_trial"
           \* monte_carlo's call strategy_mapping_func(graph, attack_budget)
           /\ attack_budget' = IF attack.raised THEN attack_budget
                               ELSE 2 * budget_mapping[2]
    /\ UNCHANGED <<nodes, edges, centrality_value, is_compromised, node_attr,
                   budget_mapping, targets, current_node,
                   next_targets, frac_compromised, resolved, popped,
                   experiment>>

\* deg_deg_trial's call of deg_deg_initial_attack(graph, attack_budget)
deg_deg_initial_attack ==
    /\ pc = "deg_deg_trial"
    /\ LET k == calc_direct_attack_budget(attack_budget \div 2)
           attacked_nodes == {v \in nodes : is_attacked[v]}
       IN  /\ direct_attack_budget' = k
           /\ attack_budget' = attack_budget - 2 * k
           /\ targets' = sorted_reverse(Ascending(attacked_nodes), centrality_value)
           /\ \E won \in SUBSET attacked_nodes :
                  is_compromised' = [v \in nodes |->
                      IF v \in attacked_nodes THEN v \in won ELSE is_compromised[v]]
           /\ resolved' = [v \in nodes |->
                  IF v \in attacked_nodes
                  THEN Append(resolved[v], direct_attack_probability(defense_value[v]))
                  ELSE resolved[v]]
    /\ pc' = "while"
    /\ UNCHANGED <<nodes, edges, centrality_value, defense_value, attack_value,
                   is_attacked, node_attr, budget_mapping, current_node,
                   next_targets, frac_compromised, popped,
                   experiment>>

\* one iteration of the while loop up to the for loop: pop, test is_compromised
pop_target ==
    /\ pc = "while"
    /\ check_trial_conditions(node_attr, attack_budget) /\ Len(targets) > 0
    /\ LET p == list_pop(targets)
           next == IF spreads(p.node) THEN next_targets_of(p.node) ELSE <<>>
       IN  /\ current_node' = p.node
           /\ targets' = p.rest
           /\ popped' = Append(popped, p.node)
           /\ next_targets' = next
           /\ pc' = IF next = <<>> THEN "while" ELSE "for"
    /\ UNCHANGED <<nodes, edges, centrality_value, defense_value, attack_value,
                   is_attacked, is_compromised, node_attr, budget_mapping,
                   attack_budget, direct_attack_budget, frac_compromised, resolved,
                   experiment>>

\* variant: a compromised target loses its defense unit
attack_target_clearing_defense ==
    /\ pc = "for"
    /\ LET target == Head(next_targets)
           row == indirect_attack_probability(defense_value[target],
                                              defense_value[current_node])
       IN  /\ for_condition(target)
           /\ is_attacked' = [is_attacked EXCEPT ![target] = TRUE]
           /\ targets' = Append(targets, target)
           /\ attack_budget' = attack_budget - 1
           /\ IF row = 0
              THEN UNCHANGED <<is_compromised, resolved, defense_value>>
              ELSE /\ \E outcome \in BOOLEAN :
                        /\ is_compromised' = [is_compromised EXCEPT ![target] = outcome]
                        /\ defense_value' = [defense_value EXCEPT
                               ![target] = IF outcome THEN 0 ELSE @]
                   /\ resolved' = [resolved EXCEPT ![target] = Append(@, row)]
    /\ next_targets' = Tail(next_targets)
    /\ pc' = IF Tail(next_targets) = <<>> THEN "while" ELSE "for"
    /\ UNCHANGED <<nodes, edges, centrality_value, attack_value,
                   node_attr, budget_mapping, direct_attack_budget, current_node,
                   frac_compromised, popped,
                   experiment>>

\* one iteration of the for loop whose condition holds: an indirect attack
attack_target ==
    /\ pc = "for"
    /\ LET target == Head(next_targets)
           row == indirect_attack_probability(defense_value[target],
                                              defense_value[current_node])
       IN  /\ for_condition(target)
           /\ is_attacked' = [is_attacked EXCEPT ![target] = TRUE]
           /\ targets' = Append(targets, target)
           /\ attack_budget' = attack_budget - 1
           /\ IF row = 0
              THEN UNCHANGED <<is_compromised, resolved>>
              ELSE /\ \E outcome \in BOOLEAN :
                        is_compromised' = [is_compromised EXCEPT ![target] = outcome]
                   /\ resolved' = [resolved EXCEPT ![target] = Append(@, row)]
    /\ next_targets' = Tail(next_targets)
    /\ pc' = IF Tail(next_targets) = <<>> THEN "while" ELSE "for"
    /\ UNCHANGED <<nodes, edges, centrality_value, defense_value, attack_value,
                   node_attr, budget_mapping, direct_attack_budget, current_node,
                   frac_compromised, popped,
                   experiment>>

\* one iteration of the for loop whose condition fails
skip_target ==
    /\ pc = "for"
    /\ ~for_condition(Head(next_targets))
    /\ next_targets' = Tail(next_targets)
    /\ pc' = IF Tail(next_targets) = <<>> THEN "while" ELSE "for"
    /\ UNCHANGED <<nodes, edges, centrality_value, defense_value, attack_value,
                   is_attacked, is_compromised, node_attr, budget_mapping,
                   attack_budget, direct_attack_budget, targets, current_node,
                   frac_compromised, resolved, popped,
                   experiment>>

\* the while condition fails: count the compromised nodes and return
return_frac_compromised ==
    /\ pc = "while"
    /\ ~(check_trial_conditions(node_attr, attack_budget) /\ Len(targets) > 0)
    /\ frac_compromised' =
           <<Cardinality({v \in nodes : is_compromised[v]}), Cardinality(nodes)>>
    /\ pc' = "done"
    /\ UNCHANGED <<nodes, edges, centrality_value, defense_value, attack_value,
                   is_attacked, is_compromised, node_attr, budget_mapping,
                   attack_budget, direct_attack_budget, targets, current_node,
                   next_targets, resolved, popped,
                   experiment>>

Next ==
    \/ generate_initial_networks
    \/ deg_deg_initial_attack
    \/ pop_target
    \/ attack_target
    \/ skip_target
    \/ return_frac_compromised

Spec == Init /\ [][Next]_vars

\* ---- calc_direct_attack_budget on its own ----------------------------------------------
InitCalc ==
    /\ InitGraph(1, {})
    /\ budget_mapping \in {0} \X (0..MaxCalcBudget)
    /\ InitLocals
    /\ experiment = NoExperiment
    /\ pc = "calc_direct_attack_budget"

calc_direct_attack_budget_call ==
    /\ pc = "calc_direct_attack_budget"
    /\ direct_attack_budget' = calc_direct_attack_budget(budget_mapping[2])
    /\ pc' = "calc_returned"
    /\ UNCHANGED <<nodes, edges, centrality_value, defense_value, attack_value,
                   is_attacked, is_compromised, node_attr, budget_mapping,
                   attack_budget, targets, current_node, next_targets,
                   frac_compromised, resolved, popped,
                   experiment>>

NextCalc == calc_direct_attack_budget_call

SpecCalc == InitCalc /\ [][NextCalc]_vars

\* ---- the pipeline with a negative budget ---------------------------------------------------
NegativeBudgets == {0 - (20 * q + 1) : q \in 0..MaxTwenties}

InitNegative ==
    /\ \E n \in 1..MaxNodes : \E E \in Graphs(n) : InitGraph(n, E)
    /\ budget_mapping \in
           (NegativeBudgets \X AttackBudgets)
           \cup ((0..MaxDefense) \X NegativeBudgets)
           \cup (NegativeBudgets \X NegativeBudgets)
    /\ InitLocals
    /\ experiment = NoExperiment
    /\ pc = "generate_initial_networks"

SpecNegative == InitNegative /\ [][Next]_vars

\* ---- generate_data: the experiment over populations and budget pairs ----------------
\* Graph objects live in experiment.heap under object identities; the
\* pipeline's variables hold the fields of the graph a trial is running on and
\* are stored back into that object when the trial has returned.

RECURSIVE Sum(_, _)
Sum(f, S) ==
    IF S = {} THEN 0
    ELSE LET x == CHOOSE y \in S : TRUE IN f[x] + Sum(f, S \ {x})

\* the graph sizes of generate_standard_networks, scaled to the model
sizes == <<2, 3>>

\* (defense budget, attack budget), scaled like sizes: as in the code's catalogue
\* on the code's sizes, no pair asks for more direct attacks than a graph has nodes
budget_mappings == <<<<3, 2>>, <<1, 21>>, <<0, 2>>>>

\* a graph of generate_simulation_graphs: generate_graph, assign_centralities
Graph(n, E) ==
    [nodes |-> 1..n,
     edges |-> E,
     centrality_value |-> [v \in 1..n |-> degree(v, E)],
     defense_value |-> [v \in 1..n |-> 0],
     attack_value |-> [v \in 1..n |-> 0],
     is_attacked |-> [v \in 1..n |-> FALSE],
     is_compromised |-> [v \in 1..n |-> FALSE]]

\* the identities of the base graphs: population s holds ids BaseIds(s)
BaseIds(s) == [i \in 1..NumGraphs |-> (s - 1) * NumGraphs + i]

AllBaseIds == 1..(Len(sizes) * NumGraphs)

\* identities that no live object has when a copy is made: the list of the
\* previous budget pair is unreachable once graphs is rebound
FreshIds == [i \in 1..NumGraphs |-> Len(sizes) * NumGraphs + i]

\* variant: copy.copy, a new list of the same graph objects
copy_shallow(heap, list) == [heap |-> heap, list |-> list]

\* copy.deepcopy(standard_networks_n): new objects with equal fields
copy_deepcopy(heap, list) ==
    [heap |-> [id \in DOMAIN heap |->
                  IF \E i \in 1..Len(list) : FreshIds[i] = id
                  THEN heap[list[CHOOSE i \in 1..Len(list) : FreshIds[i] = id]]
                  ELSE heap[id]],
     list |-> [i \in 1..Len(list) |-> FreshIds[i]]]

\* the body of generate_initial_networks' loop on one graph object
initial_network(graph, defense_budget, attack_budget_arg) ==
    LET sorted_nodes == sort_by_centrality(graph.nodes, graph.centrality_value)
        attack == assign_attack_values(sorted_nodes, attack_budget_arg)
    IN  [graph |-> [graph EXCEPT
                      !.defense_value =
                          assign_defense_values(sorted_nodes, defense_budget, @),
                      !.attack_value = [v \in graph.nodes |->
                          IF v \in attack.marked THEN 1 ELSE @[v]],
                      !.is_attacked = [v \in graph.nodes |->
                          IF v \in attack.marked THEN TRUE ELSE @[v]]],
         raised |-> attack.raised]

\* generate_initial_networks(graphs, ...) on the heap: the graphs of the list
\* in order, up to and including the first one whose allocation raises
RECURSIVE initial_networks(_, _, _, _)
initial_networks(heap, list, defense_budget, attack_budget_arg) ==
    IF list = <<>> THEN [heap |-> heap, raised |-> FALSE]
    ELSE LET done == initial_network(heap[Head(list)], defense_budget,
                                     attack_budget_arg)
             heap1 == [heap EXCEPT ![Head(list)] = done.graph]
         IN  IF done.raised THEN [heap |-> heap1, raised |-> TRUE]
             ELSE initial_networks(heap1, Tail(list), defense_budget,
                                   attack_budget_arg)

\* variant: results collected in reverse order
infiltration_data_insert(data, frac) == <<frac>> \o data

\* infiltration_data.append(frac_compromised)
infiltration_data_append(data, frac) == Append(data, frac)

\* graph_dict[key] = value; a dict is the sequence of its items in insertion order
dict_setitem(dict, key, value) ==
    IF \E i \in 1..Len(dict) : dict[i][1] = key
    THEN [i \in 1..Len(dict) |->
             IF dict[i][1] = key THEN <<key, value>> ELSE dict[i]]
    ELSE Append(dict, <<key, value>>)

\* the value random.random() returns at position i of the seeded stream, in percent
random_random(i) == experiment.stream[(i % Len(experiment.stream)) + 1]

\* draws made since the seed: the trials before this one and this trial's
random_calls == experiment.consumed + Sum([v \in nodes |-> Len(resolved[v])], nodes)

InitData ==
    /\ InitGraph(0, {})
    /\ InitLocals
    /\ budget_mapping = <<0, 0>>
    /\ pc = "generate_data"
    /\ \E base \in [AllBaseIds -> UNION {Graphs(sizes[s]) : s \in 1..Len(sizes)}] :
       \E stream \in [1..StreamLen -> DrawValues] :
           /\ \A s \in 1..Len(sizes) : \A i \in 1..NumGraphs :
                  base[BaseIds(s)[i]] \in Graphs(sizes[s])
           /\ experiment =
                  [heap |-> [id \in AllBaseIds \cup Range(FreshIds) |->
                                IF id \in AllBaseIds
                                THEN Graph(sizes[((id - 1) \div NumGraphs) + 1], base[id])
                                ELSE Graph(0, {})],
                   standard_networks |-> [s \in 1..Len(sizes) |-> BaseIds(s)],
                   stream |-> stream,
                   consumed |-> 0,
                   run |-> 1,
                   first |-> <<>>,
                   graph_dicts |-> <<>>,
                   size |-> 0,
                   mapping |-> 0,
                   graphs |-> <<>>,
                   graph |-> 0,
                   infiltration_data |-> <<>>]

\* monte_carlo's call strategy_mapping_func(graph, attack_budget): the trial's
\* graph argument and fresh locals
deg_deg_trial_call(graph, attack_budget_arg) ==
    /\ nodes' = graph.nodes
    /\ edges' = graph.edges
    /\ centrality_value' = graph.centrality_value
    /\ defense_value' = graph.defense_value
    /\ attack_value' = graph.attack_value
    /\ is_attacked' = graph.is_attacked
    /\ is_compromised' = graph.is_compromised
    /\ node_attr' = [v \in graph.nodes |-> <<>>]
    /\ resolved' = [v \in graph.nodes |-> <<>>]
    /\ attack_budget' = 2 * attack_budget_arg
    /\ targets' = <<>>
    /\ current_node' = 0
    /\ next_targets' = <<>>
    /\ popped' = <<>>
    /\ frac_compromised' = <<>>

\* the fields of the graph object the trial ran on
graph_object ==
    [nodes |-> nodes,
     edges |-> edges,
     centrality_value |-> centrality_value,
     defense_value |-> defense_value,
     attack_value |-> attack_value,
     is_attacked |-> is_attacked,
     is_compromised |-> is_compromised]

\* generate_data is called (by run 1, and again by run 2 after seeding anew)
generate_data_call ==
    /\ pc = "generate_data"
    /\ experiment' = [experiment EXCEPT
           !.graph_dicts = [i \in 1..4 |-> <<>>],
           !.consumed = 0,
           !.size = 1,
           !.mapping = 1,
           !.graphs = <<>>,
           !.graph = 0,
           !.infiltration_data = <<>>]
    /\ pc' = "budget_mapping"
    /\ UNCHANGED <<nodes, edges, centrality_value, defense_value, attack_value,
                   is_attacked, is_compromised, node_attr, budget_mapping,
                   attack_budget, direct_attack_budget, targets, current_node,
                   next_targets, frac_compromised, resolved, popped>>

\* one budget pair of generate_data up to monte_carlo's first trial: deep copy of
\* the population, generate_initial_networks on the copies
generate_data_budget_mapping ==
    /\ pc = "budget_mapping"
    /\ LET pair == budget_mappings[experiment.mapping]
           copy == copy_deepcopy(experiment.heap,
                                 experiment.standard_networks[experiment.size])
           made == initial_networks(copy.heap, copy.list, pair[1], pair[2])
       IN  /\ budget_mapping' = pair
           /\ direct_attack_budget' = calc_direct_attack_budget(pair[2])
           /\ experiment' = [experiment EXCEPT
                  !.heap = made.heap,
                  !.graphs = copy.list,
                  !.graph = 1,
                  !.infiltration_data = <<>>]
           /\ IF made.raised
              THEN /\ pc' = "IndexError"
                   /\ UNCHANGED <<nodes, edges, centrality_value, defense_value,
                                  attack_value, is_attacked, is_compromised,
                                  node_attr, resolved, attack_budget, targets,
                                  current_node, next_targets, popped,
                                  frac_compromised>>
              ELSE /\ pc' = "deg_deg_trial"
                   /\ deg_deg_trial_call(made.heap[copy.list[1]], pair[2])

\* deg_deg_initial_attack with its draws taken from the seeded stream, one per
\* attacked node in graph.nodes order
seeded_initial_attack ==
    /\ deg_deg_initial_attack
    /\ LET attacked_nodes == {v \in nodes : is_attacked[v]}
       IN  \A v \in attacked_nodes :
               is_compromised'[v] =
                   (random_random(random_calls
                                  + Cardinality({u \in attacked_nodes : u < v}))
                    < direct_attack_probability(defense_value[v]))

\* an indirect attack with its draw taken from the seeded stream
seeded_attack_target ==
    /\ attack_target
    /\ LET target == Head(next_targets)
           row == indirect_attack_probability(defense_value[target],
                                              defense_value[current_node])
       IN  row # 0 => is_compromised'[target] = (random_random(random_calls) < row)

\* monte_carlo after a trial has returned: append the result, then the next
\* trial, or (list exhausted) generate_data's graph_dict[budget_mapping] =
\* infiltration_data and its next budget pair, next population, or return
monte_carlo_append ==
    /\ pc = "done"
    /\ LET data == infiltration_data_append(experiment.infiltration_data,
                                            frac_compromised)
           stored == [experiment EXCEPT
                         !.heap[experiment.graphs[experiment.graph]] = graph_object,
                         !.consumed = random_calls,
                         !.infiltration_data = data]
       IN  IF experiment.graph < Len(experiment.graphs)
           THEN /\ experiment' = [stored EXCEPT !.graph = @ + 1]
                /\ pc' = "deg_deg_trial"
                /\ deg_deg_trial_call(
                       stored.heap[experiment.graphs[experiment.graph + 1]],
                       budget_mapping[2])
                /\ UNCHANGED <<budget_mapping, direct_attack_budget>>
           ELSE LET recorded == [stored EXCEPT
                        !.graph_dicts[experiment.size] =
                            dict_setitem(@, budget_mapping, data)]
                IN  /\ experiment' =
                           IF experiment.mapping < Len(budget_mappings)
                           THEN [recorded EXCEPT !.mapping = @ + 1]
                           ELSE [recorded EXCEPT !.mapping = 1, !.size = @ + 1]
                    /\ pc' = IF experiment.mapping < Len(budget_mappings)
                                \/ experiment.size
                                   < Min(Len(experiment.standard_networks), 4)
                             THEN "budget_mapping" ELSE "returned"
                    /\ UNCHANGED <<nodes, edges, centrality_value, defense_value,
                                   attack_value, is_attacked, is_compromised,
                                   node_attr, budget_mapping, attack_budget,
                                   direct_attack_budget, targets, current_node,
                                   next_targets, frac_compromised, resolved,
                                   popped>>

\* the caller keeps the first run's result, seeds the generator as before and
\* runs generate_data on the same base topologies again
second_run ==
    /\ pc = "returned"
    /\ experiment.run = 1
    /\ experiment' = [experiment EXCEPT !.run = 2, !.first = experiment.graph_dicts]
    /\ pc' = "generate_data"
    /\ UNCHANGED <<nodes, edges, centrality_value, defense_value, attack_value,
                   is_attacked, is_compromised, node_attr, budget_mapping,
                   attack_budget, direct_attack_budget, targets, current_node,
                   next_targets, frac_compromised, resolved, popped>>

NextData ==
    \/ generate_data_call
    \/ generate_data_budget_mapping
    \/ seeded_initial_attack
    \/ pop_target
    \/ seeded_attack_target
    \/ skip_target
    \/ return_frac_compromised
    \/ monte_carlo_append
    \/ second_run

SpecData == InitData /\ [][NextData]_vars

\* ---- properties -------------------------------------------------------------------------
\* positions inside deg_deg_trial
InTrial == pc \in {"deg_deg_trial", "while", "for", "done"}

\* the nodes flagged by assign_attack_values (the only writer of attack_value)
DirectlyAttacked == {v \in nodes : attack_value[v] = 1}

\* C1: within a trial on a fresh copy no step takes a node from Attacked back to
\* Unattacked or from Compromised back to not Compromised (so each forward
\* transition happens at most once), a node is drawn against a probability at
\* most once, and in every state a Compromised node is Attacked and was drawn once.
C1_MonotoneAttackState ==
    /\ [][\A v \in nodes :
            /\ is_attacked[v] => is_attacked'[v]
            /\ is_compromised[v] => is_compromised'[v]
            /\ resolved'[v] # resolved[v] => resolved[v] = <<>>]_vars
    /\ [](\A v \in nodes :
            is_compromised[v] => is_attacked[v] /\ Len(resolved[v]) = 1)

\* C1 witness: a finished trial with a node compromised by an indirect attack
\* and an attacked node that was not compromised
C1_Witness ==
    /\ pc = "done"
    /\ \E v \in nodes \ DirectlyAttacked : is_compromised[v]
    /\ \E u \in nodes : is_attacked[u] /\ ~is_compromised[u]

\* C2: during a trial the ledger never increases, and a step in which a node
\* becomes Attacked starts in a state with a strictly positive ledger (so none
\* does once the ledger is <= 0).
C2_LedgerGuardsAttacks ==
    [][InTrial =>
          /\ attack_budget' <= attack_budget
          /\ is_attacked' # is_attacked => attack_budget > 0]_vars

\* C2 witness: the ledger is used up while a compromised node still has a
\* neighbour that was never attacked
C2_Witness ==
    /\ pc = "done"
    /\ attack_budget <= 0
    /\ \E v, u \in nodes :
          {u, v} \in edges /\ is_compromised[u] /\ ~is_attacked[v]

\* C3: check_trial_conditions is True exactly when the ledger is positive and
\* some node of the graph is not compromised.
C3_ContinuationPredicate ==
    InTrial =>
        (check_trial_conditions(node_attr, attack_budget)
            <=> (attack_budget > 0 /\ \E v \in nodes : ~is_compromised[v]))

\* C4: the first node the indirect-spread loop pops is the directly attacked
\* node of highest centrality, and directly attacked nodes are popped in
\* centrality-descending order, before any node queued later.
C4_PopsHighestCentralityFirst ==
    /\ popped # <<>> =>
          \A v \in DirectlyAttacked :
              centrality_value[popped[1]] >= centrality_value[v]
    /\ \A i, j \in 1..Len(popped) :
          i < j /\ popped[j] \in DirectlyAttacked =>
              /\ popped[i] \in DirectlyAttacked
              /\ centrality_value[popped[i]] >= centrality_value[popped[j]]

\* C5: a step of the loops that marks a node Attacked or deducts from the ledger
\* is taken for a popped node that is Compromised, and the node marked is a
\* neighbour of it; a popped node that is not Compromised starts no for loop.
\* Hence every Attacked node is directly attacked or has a Compromised neighbour.
C5_SpreadOnlyFromCompromised ==
    /\ [][(pc \in {"while", "for"}
              /\ (is_attacked' # is_attacked \/ attack_budget' # attack_budget))
          => (/\ current_node \in nodes
              /\ is_compromised[current_node]
              /\ \A v \in nodes :
                    (is_attacked'[v] /\ ~is_attacked[v])
                        => {v, current_node} \in edges)]_vars
    /\ [](pc = "for" => is_compromised[current_node])
    /\ [](\A v \in nodes :
            is_attacked[v] =>
                \/ v \in DirectlyAttacked
                \/ \E u \in nodes : {u, v} \in edges /\ is_compromised[u])

\* C5 witness: a node that was not compromised has been popped, and another node
\* was attacked indirectly
C5_Witness ==
    /\ pc = "done"
    /\ \E i \in 1..Len(popped) : ~is_compromised[popped[i]]
    /\ \E v \in nodes \ DirectlyAttacked : is_attacked[v]

\* C6: an indirect attack costs 0.5 and marks one node, and when it is made every
\* neighbour of the popped node with a strictly higher centrality is already
\* Attacked: the neighbours attacked for one popped node are a prefix of its
\* centrality-descending list of eligible neighbours, also when the ledger runs out.
C6_NeighboursByCentrality ==
    [][(pc = "for" /\ is_attacked' # is_attacked)
       => (/\ attack_budget' = attack_budget - 1
           /\ \E t \in nodes :
                 /\ ~is_attacked[t]
                 /\ is_attacked' = [is_attacked EXCEPT ![t] = TRUE]
                 /\ {t, current_node} \in edges
                 /\ \A u \in nodes :
                       ({u, current_node} \in edges
                           /\ centrality_value[u] > centrality_value[t])
                       => is_attacked[u])]_vars

\* C6 witness: the ledger ran out part-way through the neighbour list of the
\* popped node: a neighbour attacked for it is still on the list of targets and
\* an eligible neighbour of it is left unattacked
C6_Witness ==
    /\ pc = "done"
    /\ attack_budget = 0
    /\ current_node \in nodes
    /\ is_compromised[current_node]
    /\ \E t, u \in nodes :
          /\ {t, current_node} \in edges
          /\ {u, current_node} \in edges
          /\ t \in Range(targets)
          /\ t \notin DirectlyAttacked
          /\ ~is_attacked[u]
          /\ centrality_value[t] >= centrality_value[u]

\* the probability rows of the specification, in percent
C7_DirectRow(target_defense) ==
    CASE target_defense = 1 -> 70
      [] target_defense = 0 -> 90

C7_IndirectRow(attacker_defense, target_defense) ==
    CASE attacker_defense = 0 /\ target_defense = 1 -> 50
      [] attacker_defense = 1 /\ target_defense = 0 -> 75
      [] attacker_defense = 1 /\ target_defense = 1 -> 25
      [] attacker_defense = 0 /\ target_defense = 0 -> 90

Defended == {v \in nodes : defense_value[v] = 1}

\* C8: once assign_defense_values has run with a defense budget d >= 0, exactly
\* min(d, nodeCount) nodes have defenseValue 1 and all others 0, every defended
\* node has a centrality >= that of every undefended node, and d >= nodeCount
\* defends every node.
C8_DefenseAllocation ==
    pc # "generate_initial_networks" =>
        /\ \A v \in nodes : defense_value[v] \in {0, 1}
        /\ Cardinality(Defended) = Min(budget_mapping[1], Cardinality(nodes))
        /\ \A v \in Defended : \A u \in nodes \ Defended :
              centrality_value[v] >= centrality_value[u]
        /\ budget_mapping[1] >= Cardinality(nodes) => Defended = nodes

\* C8 witness: a defense budget above the node count of a graph of several
\* nodes has been allocated
C8_Witness ==
    /\ pc = "deg_deg_trial"
    /\ Cardinality(nodes) > 1
    /\ budget_mapping[1] > Cardinality(nodes)
    /\ Defended = nodes

\* k is ceil(b / 20): the least integer with 20 * k >= b
IsCeilOfTwentieth(k, b) == 20 * k >= b /\ 20 * (k - 1) < b

\* C9: calc_direct_attack_budget(b) is the least integer k with 20 * k >= b for
\* every integer b >= 0; it is 0 for 0, 3 for 60 and 5 for 100.
C9_DirectAttackBudget ==
    pc = "calc_returned" =>
        /\ IsCeilOfTwentieth(direct_attack_budget, budget_mapping[2])
        /\ budget_mapping[2] = 0 => direct_attack_budget = 0
        /\ budget_mapping[2] = 60 => direct_attack_budget = 3
        /\ budget_mapping[2] = 100 => direct_attack_budget = 5

\* C9 witness: the call for b = 100 has returned 5
C9_Witness ==
    /\ pc = "calc_returned"
    /\ budget_mapping[2] = 100
    /\ direct_attack_budget = 5

\* C10: when generate_initial_networks has returned, the nodes flagged Attacked
\* are ceil(0.05*b) nodes of highest centrality, none of them resolved; once the
\* direct-attack phase has run, the ledger is b minus the number of directly
\* attacked nodes, less 0.5 for every indirect attack made since.
C10_DirectBudgetConsistent ==
    InTrial =>
        /\ IsCeilOfTwentieth(Cardinality(DirectlyAttacked), budget_mapping[2])
        /\ \A v \in DirectlyAttacked : \A u \in nodes \ DirectlyAttacked :
              centrality_value[v] >= centrality_value[u]
        /\ pc = "deg_deg_trial" =>
              /\ {v \in nodes : is_attacked[v]} = DirectlyAttacked
              /\ \A v \in nodes : ~is_compromised[v] /\ resolved[v] = <<>>
        /\ pc # "deg_deg_trial" =>
              attack_budget =
                  2 * (budget_mapping[2] - Cardinality(DirectlyAttacked))
                  - Cardinality({v \in nodes \ DirectlyAttacked : is_attacked[v]})

\* C10 witness: the direct-attack phase has just run on two flagged nodes
C10_Witness ==
    /\ pc = "while"
    /\ popped = <<>>
    /\ Cardinality(DirectlyAttacked) = 2
    /\ Cardinality(nodes) > 2
    /\ attack_budget = 2 * (budget_mapping[2] - 2)

\* the nodes attacked by the for loop of deg_deg_trial
IndirectlyAttacked == {v \in nodes \ DirectlyAttacked : is_attacked[v]}

\* C11: for a topology of exactly 1 node and an attack budget > 0, allocation
\* and trial complete without error, the fraction returned is 0 or 1, and no
\* indirect attack is made.
C11_SingleNodeTrial ==
    (Cardinality(nodes) = 1 /\ budget_mapping[2] > 0) =>
        /\ pc # "IndexError"
        /\ IndirectlyAttacked = {}
        /\ pc = "done" => frac_compromised \in {<<0, 1>>, <<1, 1>>}

\* C12: with attackBudget = 0 allocation flags no node, no node is ever
\* attacked or drawn for, no error is raised, and the trial returns fraction 0.
C12_ZeroAttackBudget ==
    budget_mapping[2] = 0 =>
        /\ pc # "IndexError"
        /\ \A v \in nodes :
              ~is_attacked[v] /\ ~is_compromised[v] /\ resolved[v] = <<>>
        /\ popped = <<>>
        /\ pc = "done" => frac_compromised = <<0, Cardinality(nodes)>>

\* C12 witness: a trial with attack budget 0 on a graph of several nodes has
\* returned
C12_Witness ==
    /\ pc = "done"
    /\ budget_mapping[2] = 0
    /\ Cardinality(nodes) > 1
    /\ frac_compromised = <<0, Cardinality(nodes)>>

\* C13: with a negative defense budget or a negative attack budget, allocation
\* does not return normally: no trial is started and no result is returned.
C13_NegativeBudgetRejected ==
    (budget_mapping[1] < 0 \/ budget_mapping[2] < 0) =>
        /\ ~InTrial
        /\ frac_compromised = <<>>

\* C14: generate_data never changes a base graph (defense 0, attack value 0,
\* unattacked, not compromised, edges and centralities as generated, in every
\* state up to and after the return), and every trial starts on a copy that is
\* no base object, has the base topology, and whose only attack/defense state is
\* what allocation from all-zero nodes gives for the current budget pair.
C14_FreshCopyPerBudgetPair ==
    /\ [](\A id \in AllBaseIds :
            LET g == experiment.heap[id]
            IN  \A v \in g.nodes :
                    /\ g.defense_value[v] = 0 /\ g.attack_value[v] = 0
                    /\ ~g.is_attacked[v] /\ ~g.is_compromised[v]
                    /\ g.centrality_value[v] = degree(v, g.edges))
    /\ [][\A id \in AllBaseIds :
            /\ experiment'.heap[id].nodes = experiment.heap[id].nodes
            /\ experiment'.heap[id].edges = experiment.heap[id].edges]_vars
    /\ [](pc = "deg_deg_trial" =>
            \A j \in experiment.graph..Len(experiment.graphs) :
                LET g == experiment.heap[experiment.graphs[j]]
                    base == experiment.heap[
                                experiment.standard_networks[experiment.size][j]]
                IN  /\ experiment.graphs[j] \notin AllBaseIds
                    /\ g.nodes = base.nodes /\ g.edges = base.edges
                    /\ g.centrality_value = base.centrality_value
                    /\ \A v \in g.nodes :
                           /\ ~g.is_compromised[v]
                           /\ g.is_attacked[v] <=> g.attack_value[v] = 1
                    /\ Cardinality({v \in g.nodes : g.defense_value[v] # 0})
                           = Min(budget_mapping[1], Cardinality(g.nodes))
                    /\ IsCeilOfTwentieth(
                           Cardinality({v \in g.nodes : g.is_attacked[v]}),
                           budget_mapping[2])
                    /\ (j = experiment.graph => g = graph_object))

\* C14 witness: a trial is about to start under the second budget pair although
\* the first pair's trial on a copy of the same base graph compromised nodes
C14_Witness ==
    /\ pc = "deg_deg_trial"
    /\ experiment.mapping = 2
    /\ experiment.graph = 1
    /\ experiment.graph_dicts[experiment.size][1][2][1][1] > 0
    /\ budget_mapping[1] < budget_mappings[1][1]

\* the number of budget pairs recorded so far for population s
Recorded(s) ==
    IF s < experiment.size THEN Len(budget_mappings)
    ELSE IF s = experiment.size THEN experiment.mapping - 1 ELSE 0

C16_SameDrawsSameResults ==
    pc = "returned" /\ experiment.run = 2 =>
        experiment.graph_dicts = experiment.first

\* C16 witness: the second run has returned and some trial compromised a part
\* of its graph, neither nothing nor everything
C16_Witness ==
    /\ pc = "returned"
    /\ experiment.run = 2
    /\ \E s \in 1..Len(experiment.standard_networks) :
       \E i \in 1..Len(budget_mappings) :
       \E j \in 1..Len(experiment.standard_networks[s]) :
           LET frac == experiment.graph_dicts[s][i][2][j]
           IN  0 < frac[1] /\ frac[1] < frac[2]

\* C17: no step of a trial changes a defenseValue, a centralityValue, the node
\* set, the edges (nor attack_value or networkx' attribute store): the trial
\* writes only is_attacked, is_compromised, its list of targets and its ledger.
C17_TrialFrame ==
    [][InTrial => UNCHANGED <<defense_value, centrality_value, nodes, edges,
                              attack_value, node_attr, budget_mapping>>]_vars

\* C17 witness: a finished trial that compromised a defended node by an
\* indirect attack
C17_Witness ==
    /\ pc = "done"
    /\ \E v \in IndirectlyAttacked : defense_value[v] = 1 /\ is_compromised[v]

\* an upper bound on the steps a pipeline has left: every pop leaves one
\* iteration of the while loop less, every for iteration one neighbour less
StepsLeft ==
    (Cardinality(nodes) + 1) * (Cardinality(nodes) - Len(popped))
    + Len(next_targets)
    + (CASE pc = "generate_initial_networks" -> 3
         [] pc = "deg_deg_trial" -> 2
         [] pc \in {"while", "for"} -> 1
         [] OTHER -> 0)

\* C18: every trial terminates, and does so without the 'all nodes compromised'
\* half of the continuation predicate: every step lowers a bound on the steps
\* left that is never negative, and the for loop is only ever entered with a
\* neighbour to look at (so a step is possible until the trial has returned);
\* a node is put on the list of targets at most once (the list and
\* the nodes popped so far never repeat a node, and hold Attacked nodes only),
\* so at most nodeCount nodes are popped, and the trial ends with the ledger
\* used up or the list empty.
C18_TrialTerminates ==
    /\ [][StepsLeft' < StepsLeft]_vars
    /\ [](StepsLeft >= 0)
    /\ [](pc = "for" => next_targets # <<>> /\ current_node \in nodes)
    /\ [](InTrial =>
            LET pushed == popped \o targets
            IN  /\ \A i, j \in 1..Len(pushed) : pushed[i] = pushed[j] => i = j
                /\ \A i \in 1..Len(pushed) : is_attacked[pushed[i]]
                /\ Len(popped) <= Cardinality(nodes)
                /\ pc = "done" => attack_budget <= 0 \/ targets = <<>>)

\* C18 witness: a trial that ended with budget left, having popped every node
\* of a graph of several nodes
C18_Witness ==
    /\ pc = "done"
    /\ attack_budget > 0
    /\ targets = <<>>
    /\ Cardinality(nodes) > 2
    /\ Len(popped) = Cardinality(nodes)

\* C19: for an attack budget b >= 0 the ledger is never negative in a trial (so
\* every 0.5 deduction leaves it >= 0, i.e. was made at >= 0.5); after the
\* direct phase it is b - ceil(0.05*b) less 0.5 per indirect attack, hence at
\* most 2*(b - ceil(0.05*b)) indirect attacks are made and at most
\* ceil(0.05*b) + 2*(b - ceil(0.05*b)) nodes are Attacked.
C19_LedgerNeverNegative ==
    InTrial =>
        /\ attack_budget >= 0
        /\ pc # "deg_deg_trial" =>
              LET b == budget_mapping[2]
                  k == direct_attack_budget
              IN  /\ IsCeilOfTwentieth(k, b)
                  /\ b - k >= 0
                  /\ Cardinality(IndirectlyAttacked) <= 2 * (b - k)
                  /\ Cardinality({v \in nodes : is_attacked[v]}) <= k + 2 * (b - k)

\* C19 witness: a trial that ended with the ledger at exactly 0 after indirect
\* attacks, leaving a node unattacked
C19_Witness ==
    /\ pc = "done"
    /\ attack_budget = 0
    /\ IndirectlyAttacked # {}
    /\ Cardinality(IndirectlyAttacked) = 2 * (budget_mapping[2] - direct_attack_budget)
    /\ \E v \in nodes : ~is_attacked[v]

\* C20: on a connected topology with 1 <= ceil(0.05*b) <= nodeCount and
\* 0.5*(nodeCount - ceil(0.05*b)) <= b - ceil(0.05*b), a trial in which every
\* draw succeeded ends with every node Attacked and Compromised (fraction 1);
\* and whenever the while condition is tested with budget left, every
\* Compromised node that has an unattacked neighbour is still on the list.
C20_PropagationComplete ==
    LET n == Cardinality(nodes)
        b == budget_mapping[2]
        k == direct_attack_budget
    IN  /\ (/\ pc = "done"
            /\ is_connected(n, edges)
            /\ 1 <= k /\ k <= n
            /\ n - k <= 2 * (b - k)
            /\ \A v \in nodes : is_attacked[v] => is_compromised[v])
           => (/\ \A v \in nodes : is_attacked[v] /\ is_compromised[v]
               /\ frac_compromised = <<n, n>>)
        /\ (pc \in {"while", "done"} /\ attack_budget > 0)
           => \A u, v \in nodes :
                 (is_compromised[u] /\ {u, v} \in edges /\ ~is_attacked[v])
                     => u \in Range(targets)

\* C20 witness: a trial on 3 nodes with budget for exactly the two indirect
\* attacks it needed has compromised every node
C20_Witness ==
    /\ pc = "done"
    /\ Cardinality(nodes) = 3
    /\ attack_budget = 0
    /\ Cardinality(IndirectlyAttacked) = 2
    /\ frac_compromised = <<3, 3>>

====
